---- MODULE Spec2Model ----
(***************************************************************************)
(* Model of epromimage.py: the EPROM class (a bincopy.BinFile segment      *)
(* store plus a fixed-size image buffer filled with 0xFF), its import      *)
(* operations add_bytes and readfile, its raw hex export, and the support  *)
(* functions _get_filetype and _import_hex.                                *)
(*                                                                         *)
(* Bytes are integers 0..255, byte arrays are sequences of bytes, text is  *)
(* a sequence of one-character strings.  A segment is a record             *)
(* [addr, data]; binfile.segments is a sequence of segments.               *)
(***************************************************************************)
EXTENDS Integers, Sequences, FiniteSets, TLC

VARIABLES
    size,       \* EPROM.size
    offset,     \* EPROM.offset
    image,      \* EPROM.image (bytearray of length size)
    segments,   \* EPROM.binfile.segments
    op,         \* the last call made on the EPROM: its name and arguments
    res,        \* how that call ended: "ok" or the error it raised
    ftype,      \* readfile's local ftype: what _get_filetype answered
    nops,       \* number of calls made so far
    disk,       \* the raw hex file on disk: whether it exists, and its text
    src,        \* the store and offset write_file_as_raw_hex wrote the file from
    pc,         \* position of the driver program
    added,      \* the runs add_bytes accepted, while every call so far was one
    clean,      \* TRUE while every call so far was a successful add_bytes
    collided    \* TRUE once an add_bytes call has raised the collision error

vars == <<size, offset, image, segments, op, res, ftype, nops, disk, src, pc,
          added, clean, collided>>

\* ------------------------------------------------------------------
\* Bounds of the model
\* ------------------------------------------------------------------
MaxAddr == 7
MaxOps == 3
MaxTextLen == 4
MaxRunLen == 17

\* ------------------------------------------------------------------
\* Sequence helpers
\* ------------------------------------------------------------------
\* sum(s[lo..hi])
RECURSIVE SumFrom(_, _, _)
SumFrom(s, lo, hi) ==
    IF lo > hi THEN 0
    ELSE IF lo = hi THEN s[lo]
    ELSE LET mid == (lo + hi) \div 2
         IN SumFrom(s, lo, mid) + SumFrom(s, mid + 1, hi)

\* sum(s)
SumSeq(s) == SumFrom(s, 1, Len(s))

RECURSIVE SeqsUpTo(_, _)
SeqsUpTo(S, n) ==
    IF n = 0 THEN {<<>>}
    ELSE LET shorter == SeqsUpTo(S, n - 1)
         IN shorter \cup {Append(s, x) : s \in {t \in shorter : Len(t) = n - 1}, x \in S}

Range(s) == {s[i] : i \in 1..Len(s)}

Fill == 255

\* ------------------------------------------------------------------
\* The segment store (bincopy.BinFile), as far as the EPROM class uses it
\* ------------------------------------------------------------------
SegEnd(s) == s.addr + Len(s.data)

SegCovers(s) == s.addr .. (SegEnd(s) - 1)

Covered(segs) == UNION {SegCovers(segs[i]) : i \in 1..Len(segs)}

\* The byte the store holds at a covered address.
ByteAt(segs, a) ==
    LET i == CHOOSE j \in 1..Len(segs) : a \in SegCovers(segs[j])
    IN segs[i].data[a - segs[i].addr + 1]

RECURSIVE Coalesce(_)
Coalesce(segs) ==
    IF Len(segs) < 2 THEN segs
    ELSE IF SegEnd(segs[1]) = segs[2].addr
         THEN Coalesce(<<[addr |-> segs[1].addr, data |-> segs[1].data \o segs[2].data]>>
                       \o Tail(Tail(segs)))
         ELSE <<segs[1]>> \o Coalesce(Tail(segs))

\* BinFile.add_binary(data, addr): fails when a byte of the range is already
\* held; otherwise the run is stored in address order, joined to the runs it
\* touches.
AddBinary(segs, addr, data) ==
    LET new == [addr |-> addr, data |-> data]
        Before(s) == s.addr < addr
        After(s) == s.addr > addr
    IN IF data = <<>> THEN [ok |-> TRUE, segs |-> segs]
       ELSE IF SegCovers(new) \cap Covered(segs) # {}
       THEN [ok |-> FALSE, segs |-> segs]
       ELSE [ok |-> TRUE,
             segs |-> Coalesce(SelectSeq(segs, Before) \o <<new>> \o SelectSeq(segs, After))]

\* ------------------------------------------------------------------
\* EPROM
\* ------------------------------------------------------------------
\* NewImage with the image zero-filled.
NewImage_Zero(sz) == [i \in 1..sz |-> 0]

\* EPROM.__init__: the image is size bytes of 0xFF.
NewImage(sz) == [i \in 1..sz |-> Fill]

\* Checksum without the 16 bit mask.
Checksum_NoMask(img) == SumSeq(img)

\* EPROM.checksum
Checksum(img) == SumSeq(img) % 65536

\* Chunks with absolute addresses.
Chunks_Absolute(segs, off) == [i \in 1..Len(segs) |-> <<segs[i].addr, segs[i].data>>]

\* EPROM.chunks
Chunks(segs, off) == [i \in 1..Len(segs) |-> <<segs[i].addr - off, segs[i].data>>]

\* AddBytesToImage with the end test off by one (end >= size).
AddBytesToImage_OffByOne(img, sz, off, addr, data) ==
    IF addr < off THEN [res |-> "before_offset", image |-> img]
    ELSE LET start == addr - off
             end == start + Len(data)
         IN IF end >= sz THEN [res |-> "past_end", image |-> img]
            ELSE [res |-> "ok",
                  image |-> [i \in 1..Len(img) |->
                               IF i > start /\ i <= end THEN data[i - start] ELSE img[i]]]

\* EPROM._add_bytes_to_image
AddBytesToImage(img, sz, off, addr, data) ==
    IF addr < off THEN [res |-> "before_offset", image |-> img]
    ELSE LET start == addr - off
             end == start + Len(data)
         IN IF end > sz THEN [res |-> "past_end", image |-> img]
            ELSE [res |-> "ok",
                  image |-> [i \in 1..Len(img) |->
                               IF i > start /\ i <= end THEN data[i - start] ELSE img[i]]]

\* AddBytesCall with the store's error swallowed.
AddBytesCall_IgnoreCollision(img, segs, sz, off, addr, data) ==
    LET st == AddBinary(segs, addr, data)
        r == AddBytesToImage(img, sz, off, addr, data)
    IN [res |-> r.res, image |-> r.image, segs |-> st.segs]

\* AddBytesCall writing the image before the store is asked.
AddBytesCall_ImageFirst(img, segs, sz, off, addr, data) ==
    LET r == AddBytesToImage(img, sz, off, addr, data)
        st == AddBinary(segs, addr, data)
    IN IF r.res # "ok" THEN [res |-> r.res, image |-> img, segs |-> st.segs]
       ELSE IF ~st.ok THEN [res |-> "collision", image |-> r.image, segs |-> segs]
       ELSE [res |-> "ok", image |-> r.image, segs |-> st.segs]

\* EPROM.add_bytes
AddBytesCall(img, segs, sz, off, addr, data) ==
    LET st == AddBinary(segs, addr, data)
    IN IF ~st.ok THEN [res |-> "collision", image |-> img, segs |-> segs]
       ELSE LET r == AddBytesToImage(img, sz, off, addr, data)
            IN [res |-> r.res, image |-> r.image, segs |-> st.segs]

\* readfile step 3: every segment of the store is written to the image, in
\* store order; the first one that does not fit raises.
RECURSIVE ProjectAll(_, _, _, _)
ProjectAll(img, sz, off, segs) ==
    IF segs = <<>> THEN [res |-> "ok", image |-> img]
    ELSE LET r == AddBytesToImage(img, sz, off, segs[1].addr, segs[1].data)
         IN IF r.res # "ok" THEN r ELSE ProjectAll(r.image, sz, off, Tail(segs))

\* ------------------------------------------------------------------
\* Text: characters, lines, hexadecimal digits
\* ------------------------------------------------------------------
HexChars == <<"0", "1", "2", "3", "4", "5", "6", "7",
              "8", "9", "A", "B", "C", "D", "E", "F">>

LowerHex == <<"a", "b", "c", "d", "e", "f">>

\* The characters [a-fA-F0-9] matches.
IsHexDigit(c) == c \in Range(HexChars) \cup Range(LowerHex)

\* int(c, 16) of one hexadecimal digit.
HexVal(c) ==
    IF c \in Range(HexChars)
    THEN (CHOOSE i \in 1..16 : HexChars[i] = c) - 1
    ELSE (CHOOSE i \in 1..6 : LowerHex[i] = c) + 9

\* ToHex2 as "%2X" % b: padded with a space, not a zero.
ToHex2_NoPad(b) ==
    <<IF b < 16 THEN " " ELSE HexChars[(b \div 16) + 1], HexChars[(b % 16) + 1]>>

\* "%02X" % b
ToHex2(b) == <<HexChars[(b \div 16) + 1], HexChars[(b % 16) + 1]>>

\* str.strip() strips these.
IsSpace(c) == c \in {" ", "\n", "\t"}

RECURSIVE LStrip(_)
LStrip(s) == IF s # <<>> /\ IsSpace(Head(s)) THEN LStrip(Tail(s)) ELSE s

RECURSIVE RStrip(_)
RStrip(s) ==
    IF s # <<>> /\ IsSpace(s[Len(s)]) THEN RStrip(SubSeq(s, 1, Len(s) - 1)) ELSE s

Strip(s) == RStrip(LStrip(s))

\* file.readline(): the text up to and including the first newline.
ReadLine(text) ==
    IF \E i \in 1..Len(text) : text[i] = "\n"
    THEN SubSeq(text, 1, CHOOSE i \in 1..Len(text) :
                            text[i] = "\n" /\ \A j \in 1..(i - 1) : text[j] # "\n")
    ELSE text

\* file.readlines()
RECURSIVE ReadLines(_)
ReadLines(text) ==
    IF text = <<>> THEN <<>>
    ELSE LET line == ReadLine(text)
         IN <<line>> \o ReadLines(SubSeq(text, Len(line) + 1, Len(text)))

\* re.findall(r'([a-fA-F0-9][a-fA-F0-9])', line), each match through int(num, 16)
RECURSIVE FindPairs(_)
FindPairs(line) ==
    IF Len(line) < 2 THEN <<>>
    ELSE IF IsHexDigit(line[1]) /\ IsHexDigit(line[2])
         THEN <<16 * HexVal(line[1]) + HexVal(line[2])>> \o FindPairs(Tail(Tail(line)))
         ELSE FindPairs(Tail(line))

\* ImportLine without the strip().
ImportLine_NoStrip(rawline) ==
    IF Len(rawline) = 0 \/ rawline[1] = "#" THEN <<>> ELSE FindPairs(rawline)

\* The loop body of _import_hex for one line.
ImportLine(rawline) ==
    LET line == Strip(rawline)
    IN IF Len(line) = 0 \/ line[1] = "#" THEN <<>> ELSE FindPairs(line)

RECURSIVE ImportLines(_)
ImportLines(lines) ==
    IF lines = <<>> THEN <<>> ELSE ImportLine(Head(lines)) \o ImportLines(Tail(lines))

\* _import_hex
ImportHex(text) == ImportLines(ReadLines(text))

\* EPROM._data_to_hex_strings
RECURSIVE DataToHexFrom(_, _)
DataToHexFrom(data, bytes) ==
    IF data = <<>> THEN <<>>
    ELSE ToHex2(Head(data))
         \o (IF bytes + 1 >= 16 THEN <<"\n">> \o DataToHexFrom(Tail(data), 0)
             ELSE DataToHexFrom(Tail(data), bytes + 1))

DataToHexStrings(data) == DataToHexFrom(data, 0)

\* The byte a character is stored as in a file.
Ord(c) ==
    CASE c = "\n" -> 10
      [] c = " " -> 32
      [] c = "#" -> 35
      [] c = ":" -> 58
      [] c = "G" -> 71
      [] c = "S" -> 83
      [] c \in {"0", "1", "2", "3", "4", "5", "6", "7", "8", "9"} -> 48 + HexVal(c)
      [] c \in Range(LowerHex) -> 87 + HexVal(c)
      [] OTHER -> 55 + HexVal(c)

FileBytes(text) == [i \in 1..Len(text) |-> Ord(text[i])]

\* ------------------------------------------------------------------
\* File names and _get_filetype
\* ------------------------------------------------------------------
LastIndex(s, c) ==
    IF \E i \in 1..Len(s) : s[i] = c
    THEN CHOOSE i \in 1..Len(s) : s[i] = c /\ \A j \in (i + 1)..Len(s) : s[j] # c
    ELSE 0

\* os.path.splitext(filename)[1]: from the last dot of the last path
\* component, unless only dots precede it there.
Splitext(name) ==
    LET sep == LastIndex(name, "/")
        dot == LastIndex(name, ".")
    IN IF dot > sep /\ \E k \in (sep + 1)..(dot - 1) : name[k] # "."
       THEN SubSeq(name, dot, Len(name))
       ELSE <<>>

\* _get_filetype; "IndexError" is line[0] of an empty line.
GetFiletype(name, text) ==
    LET ext == Splitext(name)
    IN IF ext = <<".", "s", "1", "9">> THEN "srecord"
       ELSE IF ext = <<".", "b", "i", "n">> THEN "binary"
       ELSE IF ext = <<".", "h", "e", "x">>
            THEN LET line == ReadLine(text)
                 IN IF line = <<>> THEN "IndexError"
                    ELSE IF line[1] = ":" THEN "intelhex" ELSE "hex"
       ELSE IF ext = <<".", "i", "h", "e", "x">> THEN "intelhex"
       ELSE "None"

\* EPROM.readfile.  dec is what bincopy decodes an S-Record or Intel Hex file
\* to: an error or one run.
ReadFileCall(img, segs, sz, off, name, text, addr, dec) ==
    LET ft == GetFiletype(name, text)
        same == [image |-> img, segs |-> segs, ftype |-> ft]
        Store(st) ==
            IF ~st.ok THEN [res |-> "collision"] @@ same
            ELSE LET r == ProjectAll(img, sz, off, st.segs)
                 IN [res |-> r.res, image |-> r.image, segs |-> st.segs, ftype |-> ft]
    IN CASE ft = "IndexError" -> [res |-> "IndexError"] @@ same
         [] ft \in {"srecord", "intelhex"} ->
                IF dec.error THEN [res |-> "format"] @@ same
                ELSE Store(AddBinary(segs, dec.addr, dec.data))
         [] ft = "binary" -> Store(AddBinary(segs, addr, FileBytes(text)))
         [] ft = "hex" -> Store(AddBinary(segs, addr, ImportHex(text)))
         [] OTHER -> [res |-> "unknown_type"] @@ same

\* BinFile.as_binary(minimum_address=minimum): the bytes from minimum up to
\* the end of the last segment; data below minimum is dropped and every
\* address no segment covers is padded with 0xFF.
AsBinary(segs, minimum) ==
    IF segs = <<>> THEN <<>>
    ELSE LET maximum == SegEnd(segs[Len(segs)])
         IN IF minimum >= maximum THEN <<>>
            ELSE [i \in 1..(maximum - minimum) |->
                    IF (minimum + i - 1) \in Covered(segs)
                    THEN ByteAt(segs, minimum + i - 1) ELSE Fill]

\* EPROM.write_file_as_raw_hex: the text written to the file.
RawHexText(segs, minimum) == DataToHexStrings(AsBinary(segs, minimum))

\* ------------------------------------------------------------------
\* Inputs
\* ------------------------------------------------------------------
Configs == {<<5, 2>>, <<16, 0>>}
Addrs == 0..MaxAddr
Datas == {<<97>>, <<255>>, <<97, 98>>}

Files == {
    [name |-> <<"a", ".", "s", "1", "9">>, text |-> <<"S", "1">>],
    [name |-> <<"a", ".", "i", "h", "e", "x">>, text |-> <<":", "0", "0">>],
    [name |-> <<"a", ".", "h", "e", "x">>, text |-> <<":", "0", "0">>],
    [name |-> <<"a", ".", "h", "e", "x">>, text |-> <<"6", "1", " ", "6", "2", "\n">>],
    [name |-> <<"a", ".", "h", "e", "x">>, text |-> <<"#", "6", "1", "\n", "F", "f">>],
    [name |-> <<"a", ".", "h", "e", "x">>, text |-> <<"\n", ":", "6", "1">>],
    [name |-> <<"a", ".", "h", "e", "x">>, text |-> <<>>],
    [name |-> <<"a", ".", "b", "i", "n">>, text |-> <<"S", "1">>],
    [name |-> <<"a", ".", "t", "x", "t">>, text |-> <<"6", "1", " ", "6", "2", "\n">>],
    [name |-> <<"a", ".", "H", "E", "X">>, text |-> <<"6", "1", " ", "6", "2", "\n">>],
    [name |-> <<".", "h", "e", "x">>, text |-> <<"6", "1", " ", "6", "2", "\n">>],
    [name |-> <<"d", ".", "s", "1", "9", "/", "a">>, text |-> <<"S", "1">>] }

\* The addr argument of readfile: its default and the small window's offset.
ReadAddrs(f) ==
    IF GetFiletype(f.name, f.text) \in {"binary", "hex"} THEN {0, 2} ELSE {0}

NoRun(err) == [error |-> err, addr |-> 0, data |-> <<>>]

Decodings(f) ==
    IF GetFiletype(f.name, f.text) \in {"srecord", "intelhex"}
    THEN {NoRun(TRUE)} \cup {[error |-> FALSE, addr |-> a, data |-> <<97>>] : a \in {1, 4}}
    ELSE {NoRun(FALSE)}

\* ------------------------------------------------------------------
\* Inputs of the raw hex specification
\* ------------------------------------------------------------------
HexConfigs == {<<40, 0>>}
HexAlphabet == {"1", "a", "F", " ", "#", "\n"}
HexTexts == SeqsUpTo(HexAlphabet, MaxTextLen)
PatBytes == <<0, 10, 171, 255, 97>>
Pat(n, k) == [i \in 1..n |-> PatBytes[((i + k) % 5) + 1]]
HexDatas == {Pat(n, k) : n \in {1, MaxRunLen - 1, MaxRunLen}, k \in {0, 3}}
HexAddrs == {0, 1, MaxRunLen + 1}
HexBases == {0, 1}
OutName == <<"o", "u", "t", ".", "h", "e", "x">>

\* ------------------------------------------------------------------
\* Inputs of the large image specification
\* ------------------------------------------------------------------
BigConfigs == {<<512, 0>>}
BigAddrs == {0, 1, 32, 510}
BigDatas == {<<97, 98>>, <<120, 121, 122>>, <<255>>}
BigFiles == {
    [name |-> <<"a", ".", "h", "e", "x">>, text |-> <<"6", "1", " ", "6", "2", "\n">>],
    [name |-> <<"a", ".", "b", "i", "n">>, text |-> <<"S", "1">>] }

\* ------------------------------------------------------------------
\* Specification
\* ------------------------------------------------------------------
NoFile == [exists |-> FALSE, text |-> <<>>]
NoSrc == [valid |-> FALSE, segs |-> <<>>, base |-> 0]

\* EPROM(size, offset)
NewEPROM(cfg) ==
    /\ size = cfg[1]
    /\ offset = cfg[2]
    /\ image = NewImage(cfg[1])
    /\ segments = <<>>
    /\ op = [name |-> "new"]
    /\ res = "ok"
    /\ ftype = "none"
    /\ nops = 0
    /\ added = {}
    /\ clean = TRUE
    /\ collided = FALSE

\* eprom.add_bytes(addr, data)
AddBytesStep(addr, data) ==
    LET r == AddBytesCall(image, segments, size, offset, addr, data)
    IN /\ image' = r.image
       /\ segments' = r.segs
       /\ op' = [name |-> "add_bytes", addr |-> addr, data |-> data]
       /\ res' = r.res
       /\ ftype' = "none"
       /\ nops' = nops + 1
       /\ clean' = (clean /\ r.res = "ok")
       /\ added' = IF clean /\ r.res = "ok" THEN added \cup {<<addr, data>>} ELSE {}
       /\ collided' = (collided \/ r.res = "collision")
       /\ UNCHANGED <<size, offset>>

\* eprom.readfile(name, addr) of a file holding text
ReadFileStep(name, text, addr, dec) ==
    LET r == ReadFileCall(image, segments, size, offset, name, text, addr, dec)
    IN /\ image' = r.image
       /\ segments' = r.segs
       /\ op' = [name |-> "readfile", file |-> name, text |-> text, addr |-> addr]
       /\ res' = r.res
       /\ ftype' = r.ftype
       /\ nops' = nops + 1
       /\ clean' = FALSE
       /\ added' = {}
       /\ UNCHANGED <<size, offset, collided>>

Init ==
    /\ \E cfg \in Configs : NewEPROM(cfg)
    /\ disk = NoFile
    /\ src = NoSrc
    /\ pc = "run"

AddBytesOf(A, D) ==
    /\ nops < MaxOps
    /\ \E addr \in A, data \in D : AddBytesStep(addr, data)
    /\ UNCHANGED <<disk, src, pc>>

ReadFileOf(F) ==
    /\ nops < MaxOps
    /\ \E f \in F : \E addr \in ReadAddrs(f), dec \in Decodings(f) :
         ReadFileStep(f.name, f.text, addr, dec)
    /\ UNCHANGED <<disk, src, pc>>

AddBytes == AddBytesOf(Addrs, Datas)

ReadFile == ReadFileOf(Files)

Next == AddBytes \/ ReadFile

Spec == Init /\ [][Next]_vars

\* The large image: a 512 byte EPROM as in main().
InitBig ==
    /\ \E cfg \in BigConfigs : NewEPROM(cfg)
    /\ disk = NoFile
    /\ src = NoSrc
    /\ pc = "run"

BigAddBytes == AddBytesOf(BigAddrs, BigDatas)

BigReadFile == ReadFileOf(BigFiles)

NextBig == BigAddBytes \/ BigReadFile

SpecBig == InitBig /\ [][NextBig]_vars

\* Raw hex: an EPROM is filled and written with write_file_as_raw_hex, and the
\* file (or a file that was on disk from the start) is read into a new EPROM.
InitHex ==
    /\ \E cfg \in HexConfigs : NewEPROM(cfg)
    /\ \/ disk = NoFile /\ pc = "build"
       \/ \E text \in HexTexts : disk = [exists |-> TRUE, text |-> text] /\ pc = "fresh"
    /\ src = NoSrc

HexAdd ==
    /\ pc = "build"
    /\ nops + 1 < MaxOps
    /\ \E addr \in HexAddrs, data \in HexDatas : AddBytesStep(addr, data)
    /\ UNCHANGED <<disk, src, pc>>

\* eprom.write_file_as_raw_hex("out.hex", base)
WriteRawHex ==
    /\ pc = "build"
    /\ \E base \in HexBases :
         /\ disk' = [exists |-> TRUE, text |-> RawHexText(segments, base)]
         /\ src' = [valid |-> TRUE, segs |-> segments, base |-> base]
         /\ op' = [name |-> "write_file_as_raw_hex", addr |-> base]
    /\ res' = "ok"
    /\ ftype' = "none"
    /\ pc' = "written"
    /\ nops' = nops + 1
    /\ UNCHANGED <<size, offset, image, segments, added, clean, collided>>

\* eprom = EPROM(size, offset): a new, empty image replaces the written one
Fresh ==
    /\ pc = "written"
    /\ image' = NewImage(size)
    /\ segments' = <<>>
    /\ op' = [name |-> "new"]
    /\ res' = "ok"
    /\ ftype' = "none"
    /\ added' = {}
    /\ clean' = TRUE
    /\ collided' = FALSE
    /\ pc' = "fresh"
    /\ UNCHANGED <<size, offset, nops, disk, src>>

\* eprom.readfile("out.hex", addr)
ReadDisk ==
    /\ pc = "fresh"
    /\ disk.exists
    /\ \E addr \in HexBases : ReadFileStep(OutName, disk.text, addr, NoRun(FALSE))
    /\ pc' = "done"
    /\ UNCHANGED <<disk, src>>

NextHex == HexAdd \/ WriteRawHex \/ Fresh \/ ReadDisk

SpecHex == InitHex /\ [][NextHex]_vars

\* ------------------------------------------------------------------
\* Properties
\* ------------------------------------------------------------------
IsAdd(o) == o.name = "add_bytes"

IsRead(o) == o.name = "readfile"

\* The addresses an add_bytes call names.
OpRange(o) == o.addr .. (o.addr + Len(o.data) - 1)

BoundsErrors == {"before_offset", "past_end"}

\* C1: an add_bytes call whose address range holds an address the store
\* already covers raises the collision error, whatever the byte values.
C1_OverlapRaises ==
    [][(IsAdd(op') /\ OpRange(op') \cap Covered(segments) # {}) => res' = "collision"]_vars

\* A collision raised for a byte equal to the one stored.
C1_Witness ==
    /\ IsAdd(op) /\ res = "collision"
    /\ Len(op.data) = 1
    /\ ByteAt(segments, op.addr) = op.data[1]

\* C2: an add_bytes call that raises the collision error changes neither the
\* store nor the image, and after such a failure an add_bytes of an in-window
\* range disjoint from every stored run succeeds and keeps every address the
\* store covered, with its byte.
C2_CollisionLeavesState ==
    [][/\ (IsAdd(op') /\ res' = "collision") => (segments' = segments /\ image' = image)
       /\ (/\ collided /\ IsAdd(op')
           /\ OpRange(op') \cap Covered(segments) = {}
           /\ op'.addr >= offset /\ op'.addr + Len(op'.data) <= offset + size)
          => /\ res' = "ok"
             /\ \A a \in Covered(segments) :
                  a \in Covered(segments') /\ ByteAt(segments', a) = ByteAt(segments, a)]_vars

\* After a collision, a later add_bytes succeeded beside the earlier run.
C2_Witness ==
    /\ collided /\ IsAdd(op) /\ res = "ok"
    /\ Covered(segments) # OpRange(op)

\* C3: a run that starts below offset or ends past offset + size raises a
\* bounds error and leaves the image as it was; a run that starts at or after
\* offset and ends exactly at offset + size is written.
C3_Bounds ==
    [][(IsAdd(op') /\ res' # "collision") =>
         LET end == op'.addr + Len(op'.data)
         IN /\ op'.addr < offset => (res' \in BoundsErrors /\ image' = image)
            /\ end > offset + size => (res' \in BoundsErrors /\ image' = image)
            /\ (op'.addr >= offset /\ end = offset + size) =>
                  (res' = "ok" /\ SubSeq(image', size - Len(op'.data) + 1, size) = op'.data)]_vars

\* A run ending exactly at offset + size was written.
C3_Witness ==
    /\ IsAdd(op) /\ res = "ok"
    /\ op.addr + Len(op.data) = offset + size

\* The main() scenario: a 16 byte image at offset 0 after add_bytes(6, b'ab').
Scenario16 ==
    /\ size = 16 /\ offset = 0 /\ nops = 1
    /\ IsAdd(op) /\ op.addr = 6 /\ op.data = <<97, 98>>

\* C5 as stated: in the scenario checksum() returns 0xF6B (3947).
C5_AsStated == Scenario16 => Checksum(image) = 3947

\* C5: in the scenario checksum() returns 0xFF*14 + 0x61 + 0x62 = 0xEB5 (3765).
C5_Checksum == Scenario16 => Checksum(image) = 3765

C5_Witness == Scenario16 /\ res = "ok"

\* C4: a new image of size C has checksum (0xFF * C) mod 0x10000, and every
\* successful add_bytes(addr, data) moves the checksum to
\* (checksum + sum(data) - 0xFF * len(data)) mod 0x10000.
C4_ChecksumDelta ==
    [][/\ nops = 0 => Checksum(image) = (255 * size) % 65536
       /\ (IsAdd(op') /\ res' = "ok") =>
            Checksum(image') =
              (Checksum(image) + SumSeq(op'.data) - 255 * Len(op'.data)) % 65536]_vars

\* A successful add_bytes on an image whose byte sum does not fit 16 bits.
C4_Witness ==
    /\ IsAdd(op) /\ res = "ok"
    /\ SumSeq(op.data) # 255 * Len(op.data)
    /\ SumSeq(image) >= 65536

\* The runs of S in ascending address order, as chunks relative to off.
RECURSIVE ChunksOfRuns(_, _)
ChunksOfRuns(S, off) ==
    IF S = {} THEN <<>>
    ELSE LET first == CHOOSE r \in S : \A q \in S : r[1] <= q[1]
         IN <<<<first[1] - off, first[2]>>>> \o ChunksOfRuns(S \ {first}, off)

RunRange(r) == r[1] .. (r[1] + Len(r[2]) - 1)

\* No two runs of S share an address or touch.
Separate(S) ==
    \A r \in S, q \in S :
        r # q => (r[1] + Len(r[2]) < q[1] \/ q[1] + Len(q[2]) < r[1])

\* C6: after successful add_bytes calls only, of runs that neither overlap
\* nor touch, chunks() yields one chunk per run, in ascending address order,
\* at the run's address minus offset and with the run's bytes; the image
\* holds each run at that position and 0xFF wherever no run lies.
C6_ChunksPerRun ==
    (clean /\ Separate(added)) =>
        LET ch == Chunks(segments, offset)
        IN /\ ch = ChunksOfRuns(added, offset)
           /\ \A i \in 1..Len(ch) :
                /\ i < Len(ch) => ch[i][1] < ch[i + 1][1]
                /\ SubSeq(image, ch[i][1] + 1, ch[i][1] + Len(ch[i][2])) = ch[i][2]
           /\ \A i \in 1..size :
                (\A r \in added : (offset + i - 1) \notin RunRange(r)) => image[i] = Fill

\* Three separate runs, the one lowest in address not added first.
C6_Witness ==
    /\ clean /\ Separate(added)
    /\ Cardinality(added) = 3
    /\ IsAdd(op) /\ Chunks(segments, offset)[1] = <<op.addr - offset, op.data>>
    /\ offset > 0

\* C9 as stated: the extension decides the format tag, ".hex" giving
\* "intelhex" for a first character ':' and "hex" for any other content, the
\* empty file included; an unrecognized extension raises the unknown file
\* type error.
C9_AsStated ==
    IsRead(op) =>
        LET ext == Splitext(op.file)
        IN /\ ext = <<".", "s", "1", "9">> => ftype = "srecord"
           /\ ext = <<".", "b", "i", "n">> => ftype = "binary"
           /\ ext = <<".", "i", "h", "e", "x">> => ftype = "intelhex"
           /\ (ext = <<".", "h", "e", "x">> /\ op.text # <<>> /\ op.text[1] = ":")
                 => ftype = "intelhex"
           /\ (ext = <<".", "h", "e", "x">> /\ (op.text = <<>> \/ op.text[1] # ":"))
                 => ftype = "hex"
           /\ ext \notin {<<".", "s", "1", "9">>, <<".", "b", "i", "n">>,
                          <<".", "i", "h", "e", "x">>, <<".", "h", "e", "x">>}
                 => res = "unknown_type"

\* C10 as stated: whatever calls were made, every chunk lies inside the
\* image, the image holds its bytes, positions no chunk covers hold 0xFF, and
\* the image is size bytes long.
C10_AsStated ==
    LET ch == Chunks(segments, offset)
    IN /\ Len(image) = size
       /\ \A i \in 1..Len(ch) :
            /\ ch[i][1] >= 0
            /\ ch[i][1] + Len(ch[i][2]) <= size
            /\ SubSeq(image, ch[i][1] + 1, ch[i][1] + Len(ch[i][2])) = ch[i][2]
       /\ \A i \in 1..size : (offset + i - 1) \notin Covered(segments) => image[i] = Fill

\* int(num, 16) of each successive pair of digits; a last single digit is left.
RECURSIVE PairAll(_)
PairAll(digits) ==
    IF Len(digits) < 2 THEN <<>>
    ELSE <<16 * HexVal(digits[1]) + HexVal(digits[2])>> \o PairAll(Tail(Tail(digits)))

\* A line _import_hex passes over: blank, or '#' as its first non-blank character.
Skipped(line) == Strip(line) = <<>> \/ Strip(line)[1] = "#"

RECURSIVE DataLines(_)
DataLines(lines) ==
    IF lines = <<>> THEN <<>>
    ELSE (IF Skipped(Head(lines)) THEN <<>> ELSE Head(lines)) \o DataLines(Tail(lines))

\* The hex digits of the text outside its comment lines, paired in order.
AllDigitsPaired(text) == PairAll(SelectSeq(DataLines(ReadLines(text)), IsHexDigit))

\* The length of the unbroken run of hex digits s starts with.
RECURSIVE HexPrefix(_)
HexPrefix(s) == IF s # <<>> /\ IsHexDigit(Head(s)) THEN 1 + HexPrefix(Tail(s)) ELSE 0

\* Each unbroken run of hex digits paired on its own.
RECURSIVE RunsPaired(_)
RunsPaired(s) ==
    IF s = <<>> THEN <<>>
    ELSE IF ~IsHexDigit(Head(s)) THEN RunsPaired(Tail(s))
    ELSE LET n == HexPrefix(s)
         IN PairAll(SubSeq(s, 1, n)) \o RunsPaired(SubSeq(s, n + 1, Len(s)))

RECURSIVE LinesRunsPaired(_)
LinesRunsPaired(lines) ==
    IF lines = <<>> THEN <<>>
    ELSE (IF Skipped(Head(lines)) THEN <<>> ELSE RunsPaired(Head(lines)))
         \o LinesRunsPaired(Tail(lines))

\* A raw hex file that was on disk from the start has been read into a new image.
ReadGivenText == pc = "done" /\ IsRead(op) /\ ~src.valid /\ ftype = "hex"

\* What the store holds once bb was added at addr to an empty store.
OneRun(addr, bb) == IF bb = <<>> THEN <<>> ELSE <<[addr |-> addr, data |-> bb]>>

\* C8 as stated: the decoded bytes are all hex digits outside the comment
\* lines paired in order, stored as one run at the base address.
C8_AsStated ==
    ReadGivenText => segments = OneRun(op.addr, AllDigitsPaired(op.text))

\* C8: the decoded bytes are the hex digits of each unbroken run of hex
\* digits paired in order (the last digit of an odd run is dropped, and no
\* pair spans a separator or a line end), comment lines skipped; readfile
\* stores them as one run at the base address.
C8_RunsPaired ==
    ReadGivenText => segments = OneRun(op.addr, LinesRunsPaired(ReadLines(op.text)))

\* A text with a comment line and a data line, read at base address 1.
C8_Witness ==
    /\ ReadGivenText /\ res = "ok"
    /\ op.text[1] = "#"
    /\ op.addr = 1
    /\ segments # <<>>

\* The file written by write_file_as_raw_hex at base src.base has been read
\* into a new image at the same base address.
ReadWritten == pc = "done" /\ IsRead(op) /\ src.valid /\ op.addr = src.base

\* C7 as stated: the store read back equals the store written.
C7_AsStated == ReadWritten => segments = src.segs

\* The store written was one run starting at the base address.
OneRunAtBase == Len(src.segs) = 1 /\ src.segs[1].addr = src.base

\* C7: when the store written is a single run starting at the base address,
\* the file is taken for raw hex and the store read back equals the store
\* written.
C7_RoundTrip ==
    (ReadWritten /\ OneRunAtBase) => (ftype = "hex" /\ segments = src.segs)

\* A run longer than one line of the file came back.
C7_Witness ==
    /\ ReadWritten /\ OneRunAtBase
    /\ Len(src.segs[1].data) > 16
    /\ segments = src.segs
====
